---- MODULE Spec2Model ----
(***************************************************************************)
(* A model of the voxel world of alama09x/voxel-game: the chunk streaming  *)
(* manager and its chained per-tick systems (src/src/world.rs), the player *)
(* entity that emits observer events (src/src/player.rs), and the chunk    *)
(* storage, generator and run-length codec (src/src/chunk.rs).             *)
(***************************************************************************)
EXTENDS Integers, Sequences, FiniteSets, TLC

(***************************************************************************)
(* Sizes.  The program's values are RENDER_DISTANCE = 8, CHUNKS_PER_FRAME  *)
(* = 8, CHUNK_WIDTH = 16 and u16::MAX = 65535; the model keeps the code    *)
(* and shrinks the numbers so that every case can be enumerated.           *)
(***************************************************************************)

\* world.rs:27.  Radius 1 is the smallest radius whose sphere (7 positions)
\* differs from a single position and from the cube (27 positions).
RENDER_DISTANCE == 1

\* world.rs:28.  A budget below the size of one sphere, so that a sphere is
\* loaded over several ticks.
CHUNKS_PER_FRAME == 2

\* chunk.rs:15.
CHUNK_WIDTH == 2

\* chunk.rs:16
CHUNK_SIZE == CHUNK_WIDTH * CHUNK_WIDTH * CHUNK_WIDTH

\* The largest value of the u16 run counter of to_rle (chunk.rs:464, 468),
\* shrunk below CHUNK_SIZE so that the cap splits runs.
U16_MAX == 3

\* Observer events sent in one run, the one of player.rs:64 included.
MaxEvents == 2


(***************************************************************************)
(* Voxels: block.rs                                                        *)
(***************************************************************************)

\* block.rs:5-14: the variants of enum Block
BlockVariants == {"Air", "Stone", "Dirt", "Grass"}

\* Mutant of ALL: two variants listed in the other order.
ALLExchanged == <<"Air", "Dirt", "Stone", "Grass">>

\* block.rs:16-18, Block::ALL
ALL == <<"Air", "Stone", "Dirt", "Grass">>

Block == {ALL[i] : i \in 1..Len(ALL)}

\* block.rs:47-49: the discriminant of #[repr(u32)] enum Block (block.rs:5-14)
raw(v) ==
  CASE v = "Air" -> 0
    [] v = "Stone" -> 1
    [] v = "Dirt" -> 2
    [] v = "Grass" -> 3

\* block.rs:31-37
is_opaque(v) == v # "Air"

\* Mutant of lerp: t <= 0.5 selects a.
lerp_inclusive(a, b, t60) == IF t60 <= 30 THEN a ELSE b

\* block.rs:39-45.  t is given in sixtieths, so that 0.5 is 30.
lerp(a, b, t60) == IF t60 < 30 THEN a ELSE b

(***************************************************************************)
(* Chunk positions: chunk.rs                                               *)
(***************************************************************************)

\* chunk.rs:31-43: -x, +x, -y, +y, -z, +z
offsets(pos) ==
  << <<pos[1] - 1, pos[2], pos[3]>>,
     <<pos[1] + 1, pos[2], pos[3]>>,
     <<pos[1], pos[2] - 1, pos[3]>>,
     <<pos[1], pos[2] + 1, pos[3]>>,
     <<pos[1], pos[2], pos[3] - 1>>,
     <<pos[1], pos[2], pos[3] + 1>> >>

OffsetSet(pos) == {offsets(pos)[i] : i \in 1..6}

\* Mutant of DesiredChunks: the test of world.rs:177 left out (a cube).
DesiredChunksCube(p, r) ==
  { <<p[1] + d[1], p[2] + d[2], p[3] + d[3]>> : d \in (-r..r) \X (-r..r) \X (-r..r) }

\* world.rs:169-182: the positions update_chunk_manager inserts into
\* desired_chunks for an event at p and a render distance r.
DesiredChunks(p, r) ==
  { <<p[1] + dx, p[2] + dy, p[3] + dz>> :
      <<dx, dy, dz>> \in { d \in (-r..r) \X (-r..r) \X (-r..r) :
                             d[1] * d[1] + d[2] * d[2] + d[3] * d[3] <= r * r } }

\* The chunk coordinates the observer visits.
ObserverPositions == { <<0, 0, 0>>, <<1, 0, 0>> }

\* Every position a chunk can be asked for.
Universe == UNION { DesiredChunks(p, RENDER_DISTANCE) : p \in ObserverPositions }

(***************************************************************************)
(* Chunk storage and the run-length codec: chunk.rs                        *)
(***************************************************************************)

\* chunk.rs:20: Box<[V; CHUNK_SIZE]>, the cell of index i at place i + 1
ChunkData == [1..CHUNK_SIZE -> Block]

\* chunk.rs:22-26
DefaultChunk == [i \in 1..CHUNK_SIZE |-> "Air"]

\* chunk.rs:186-193
to_index(x, y, z) == x * (CHUNK_WIDTH * CHUNK_WIDTH) + y * CHUNK_WIDTH + z

\* chunk.rs:176-179
get(data, x, y, z) == data[to_index(x, y, z) + 1]

\* Mutant of get_mut: the cell is found with x and z exchanged.
get_mut_transposed(data, x, y, z, v) == [data EXCEPT ![to_index(z, y, x) + 1] = v]

\* chunk.rs:181-184: the chunk after v was written through the reference
\* get_mut returns
get_mut(data, x, y, z, v) == [data EXCEPT ![to_index(x, y, z) + 1] = v]

\* Mutant of ToRleLoop: count <= u16::MAX at chunk.rs:468, so that the
\* counter wraps.
RECURSIVE ToRleLoopLe(_, _, _, _, _)
ToRleLoopLe(data, i, rle, count, last) ==
  IF i > Len(data) THEN Append(rle, <<count, last>>)
  ELSE IF data[i] = last /\ count <= U16_MAX
       THEN ToRleLoopLe(data, i + 1, rle, (count + 1) % (U16_MAX + 1), last)
       ELSE ToRleLoopLe(data, i + 1, Append(rle, <<count, last>>), 1, data[i])

\* chunk.rs:467-475: the loop of to_rle from cell i on; count is a u16
RECURSIVE ToRleLoop(_, _, _, _, _)
ToRleLoop(data, i, rle, count, last) ==
  IF i > Len(data) THEN Append(rle, <<count, last>>)
  ELSE IF data[i] = last /\ count < U16_MAX
       THEN ToRleLoop(data, i + 1, rle, (count + 1) % (U16_MAX + 1), last)
       ELSE ToRleLoop(data, i + 1, Append(rle, <<count, last>>), 1, data[i])

\* Mutant of to_rle: count starts at 1 at chunk.rs:464.
to_rle_from1(data) == ToRleLoop(data, 1, <<>>, 1, data[1])

\* chunk.rs:462-478
to_rle(data) == ToRleLoop(data, 1, <<>>, 0, data[1])

\* iter::repeat(value).take(count), chunk.rs:483
Repeat(value, count) == [i \in 1..count |-> value]

\* chunk.rs:482-484: the cells the runs expand to, in order
RECURSIVE Expand(_)
Expand(rle) ==
  IF rle = <<>> THEN <<>>
  ELSE Repeat(rle[1][2], rle[1][1]) \o Expand(Tail(rle))

\* The outcome of a panic (a failed assert_eq!, chunk.rs:485).
Panic == [ok |-> FALSE, voxels |-> <<>>]

\* Mutant of from_rle: the assertion of chunk.rs:485 replaced by a
\* truncation of what is too long.
from_rle_lenient(rle) ==
  LET data == Expand(rle)
  IN IF Len(data) >= CHUNK_SIZE
     THEN [ok |-> TRUE, voxels |-> SubSeq(data, 1, CHUNK_SIZE)]
     ELSE Panic

\* chunk.rs:480-487
from_rle(rle) ==
  LET data == Expand(rle)
  IN IF Len(data) = CHUNK_SIZE THEN [ok |-> TRUE, voxels |-> data] ELSE Panic

(***************************************************************************)
(* The terrain generator: chunk.rs.  The noise crate is outside the        *)
(* repository; its fields are deterministic functions of the sample point  *)
(* and the seed, and the model fixes one such function for each field.     *)
(* Heights are whole world units, densities are hundredths.                *)
(***************************************************************************)

\* chunk.rs:58-90
surface_heightmap(wx, wz, seed) == ((7 * wx + 11 * wz + 13 * seed) % 31) - 5

\* chunk.rs:92-124
cave_depth_field(wx, wy, wz, seed) ==
  ((37 * wx + 53 * wy + 71 * wz + 29 * (seed + 1)) % 121) - 60

\* Mutant of GenerateBlock: lerp is given the density itself, not the
\* density remapped from [-0.3, 0.3] into [0, 1].
GenerateBlockUnmapped(pos, seed, x, y, z) ==
  LET wx == pos[1] * CHUNK_WIDTH + x
      wy == pos[2] * CHUNK_WIDTH + y
      wz == pos[3] * CHUNK_WIDTH + z
      height == surface_heightmap(wx, wz, seed)
      density == cave_depth_field(wx, wy, wz, seed)
  IN IF wy < height - 16
     THEN IF density < -30 THEN "Air"
          ELSE IF density > 30 THEN "Air"
          ELSE lerp("Air", "Stone", (density * 60) \div 100)
     ELSE IF wy < height - 8 THEN "Stone"
     ELSE IF wy < height - 4 THEN "Dirt"
     ELSE IF wy < height THEN "Grass"
     ELSE "Air"

\* chunk.rs:140-164: the block of local cell (x, y, z) of the chunk at pos
GenerateBlock(pos, seed, x, y, z) ==
  LET wx == pos[1] * CHUNK_WIDTH + x
      wy == pos[2] * CHUNK_WIDTH + y
      wz == pos[3] * CHUNK_WIDTH + z
      height == surface_heightmap(wx, wz, seed)
      density == cave_depth_field(wx, wy, wz, seed)
  IN IF wy < height - 16
     THEN IF density < -30 THEN "Air"
          ELSE IF density > 30 THEN "Air"
          ELSE lerp("Air", "Stone", density + 30)
     ELSE IF wy < height - 8 THEN "Stone"
     ELSE IF wy < height - 4 THEN "Dirt"
     ELSE IF wy < height THEN "Grass"
     ELSE "Air"

\* chunk.rs:139, 166: the pushes of the z loop for one (x, y)
GenerateZ(pos, seed, x, y) ==
  [k \in 1..CHUNK_WIDTH |-> GenerateBlock(pos, seed, x, y, k - 1)]

\* chunk.rs:138: the pushes of the y loop for one x, from y on
RECURSIVE GenerateY(_, _, _, _)
GenerateY(pos, seed, x, y) ==
  IF y >= CHUNK_WIDTH THEN <<>>
  ELSE GenerateZ(pos, seed, x, y) \o GenerateY(pos, seed, x, y + 1)

\* chunk.rs:137: the pushes of the x loop, from x on
RECURSIVE GenerateX(_, _, _)
GenerateX(pos, seed, x) ==
  IF x >= CHUNK_WIDTH THEN <<>>
  ELSE GenerateY(pos, seed, x, 0) \o GenerateX(pos, seed, x + 1)

\* chunk.rs:126-172
generate(pos, seed) == GenerateX(pos, seed, 0)

(***************************************************************************)
(* The world: entities, the streaming manager and the chained systems of   *)
(* WorldPlugin (world.rs), and the player entity (player.rs).              *)
(***************************************************************************)

VARIABLES
  phase,          \* the system of the Update chain that runs next
  events,         \* PlayerMoveChunkEvents sent and not yet read by update_chunk_manager
  evSent,         \* how many events were sent so far
  moved,          \* detect_player_movement has sent its event in this frame
  playerPos,      \* the ChunkPos component of the player entity
  chunks,         \* the chunk entities that exist, each with its components
  spawned,        \* per ChunkPos, how many chunk entities were ever spawned for it
  loaded_chunks,  \* ChunkManager::loaded_chunks
  load_queue,     \* ChunkManager::load_queue
  unload_queue,   \* ChunkManager::unload_queue
  seed,           \* Res<Seed>
  world,          \* Res<WorldSave>: WorldSave::chunks
  crashed,        \* a system has panicked
  tickSpawned,    \* history: the chunk entities spawned in this tick
  lastLinks,      \* history: the links update_chunk_neighbors computed in this tick
  linkWorld,      \* history: the chunk entities that existed when it ran
  meshRead,       \* history: the links update_chunk_meshes read in this tick
  meshWorld,      \* history: the chunk entities that existed when it ran
  fpc,            \* for a function checked on its own: what has been applied
  fin,            \* its input
  fout            \* its output

vars == << phase, events, evSent, moved, playerPos, chunks, spawned, loaded_chunks,
           load_queue, unload_queue, seed, world, crashed,
           tickSpawned, lastLinks, linkWorld, meshRead, meshWorld, fpc, fin, fout >>

\* The variables of a function checked on its own.
pure == << fpc, fin, fout >>

\* The variables of the running world.
running == << phase, events, evSent, moved, playerPos, chunks, spawned,
              loaded_chunks, load_queue, unload_queue, seed, world, crashed,
              tickSpawned, lastLinks, linkWorld, meshRead, meshWorld >>

\* An Entity is an opaque handle that is never handed out twice.  The model
\* names the n-th chunk entity spawned for a position by that position and n.
ChunkEntity(pos, n) == [kind |-> "chunk", pos |-> pos, gen |-> n]

\* player.rs:58-63: the entity setup spawns; it carries a ChunkPos too
PlayerEntity == [kind |-> "player", pos |-> <<0, 0, 0>>, gen |-> 0]

\* Option::None in a slot of ChunkNeighbors (chunk.rs:45-46)
NoEntity == [kind |-> "none", pos |-> <<0, 0, 0>>, gen |-> 0]

NoEntities == [e \in {} |-> NoEntity]

\* chunk.rs:45-46, #[derive(Default)]
DefaultNeighbors == [i \in 1..6 |-> NoEntity]

\* The positions of the chunk entities that exist.
ExistingPositions == { chunks[e].pos : e \in DOMAIN chunks }

(***************************************************************************)
(* The two queues.  load_queue receives, per event, the positions of a     *)
(* HashSet difference in the set's iteration order, and unload_queue the   *)
(* entities of a query in the query's iteration order; the code fixes      *)
(* neither order.  The model keeps what one event pushed as one unordered  *)
(* batch and lets pop_front take any member of the oldest batch: the runs  *)
(* are those of choosing an order at the push.                             *)
(***************************************************************************)

\* VecDeque::len
RECURSIVE QLen(_)
QLen(q) == IF q = <<>> THEN 0 ELSE Cardinality(Head(q)) + QLen(Tail(q))

\* The members of a queue.
QSet(q) == UNION { q[i] : i \in 1..Len(q) }

\* VecDeque::contains
QContains(q, x) == x \in QSet(q)

\* push_back of every member of batch, in some order
QPush(q, batch) == IF batch = {} THEN q ELSE Append(q, batch)

\* pop_front: the pairs << front, rest >> it can give on a non-empty queue
QPops(q) ==
  { << x, IF Head(q) = {x} THEN Tail(q) ELSE << Head(q) \ {x} >> \o Tail(q) >> :
      x \in Head(q) }

(***************************************************************************)
(* player.rs                                                               *)
(***************************************************************************)

\* player.rs:114-126: the player entered another chunk, fewer than n events
\* having been sent
PlayerMoveWithin(n) ==
  /\ ~crashed
  /\ ~moved
  /\ evSent < n
  /\ \E p \in ObserverPositions \ {playerPos} :
       /\ playerPos' = p
       /\ events' = Append(events, p)
  /\ evSent' = evSent + 1
  /\ moved' = TRUE
  /\ UNCHANGED << phase, chunks, spawned, loaded_chunks, load_queue, unload_queue,
                  seed, world, crashed, tickSpawned, lastLinks, linkWorld,
                  meshRead, meshWorld, pure >>

\* player.rs:114-126
PlayerMove == PlayerMoveWithin(MaxEvents)

(***************************************************************************)
(* world.rs: the Update chain                                              *)
(***************************************************************************)

\* Mutant of ChainOrder: the last two systems of the chain exchanged.
ChainOrderMeshFirst == << "manager", "load", "meshes", "neighbors" >>

\* world.rs:41-50: the systems of the chain, in order.  Bevy applies the
\* commands a system queued before the next system of the chain runs.
ChainOrder == << "manager", "load", "neighbors", "meshes" >>

\* The place of a system in the chain.
ChainIndex(ph) == CHOOSE i \in 1..Len(ChainOrder) : ChainOrder[i] = ph

\* The system that runs after ph; after the last one the next frame begins.
NextPhase(ph) ==
  IF ChainIndex(ph) = Len(ChainOrder) THEN ChainOrder[1]
  ELSE ChainOrder[ChainIndex(ph) + 1]

\* A system has run: the chain moves on, and a frame that ends lets
\* detect_player_movement run again.
Advance ==
  /\ phase' = NextPhase(phase)
  /\ moved' = IF ChainIndex(phase) = Len(ChainOrder) THEN FALSE ELSE moved

\* Mutant of HandleEvent: loaded_chunks cleared (world.rs:164) and the loop
\* of world.rs:165-167 that fills it left out.
HandleEventCleared(m, ev) ==
  LET loaded == {}
      desired == DesiredChunks(ev, RENDER_DISTANCE)
      toLoad == { pos \in desired \ loaded : ~QContains(m.lq, pos) }
      toUnload == { e \in DOMAIN chunks :
                      chunks[e].pos \notin desired /\ ~QContains(m.uq, e) }
  IN [loaded |-> loaded, lq |-> QPush(m.lq, toLoad), uq |-> QPush(m.uq, toUnload)]

\* Mutant of HandleEvent: the test load_queue.contains of world.rs:185 left
\* out.
HandleEventRequeue(m, ev) ==
  LET loaded == ExistingPositions
      desired == DesiredChunks(ev, RENDER_DISTANCE)
      toLoad == desired \ loaded
      toUnload == { e \in DOMAIN chunks :
                      chunks[e].pos \notin desired /\ ~QContains(m.uq, e) }
  IN [loaded |-> loaded, lq |-> QPush(m.lq, toLoad), uq |-> QPush(m.uq, toUnload)]

\* world.rs:162-194: the body of the event loop for one event, on the
\* manager state m = [loaded, lq, uq]
HandleEvent(m, ev) ==
  LET loaded == ExistingPositions
      desired == DesiredChunks(ev, RENDER_DISTANCE)
      toLoad == { pos \in desired \ loaded : ~QContains(m.lq, pos) }
      toUnload == { e \in DOMAIN chunks :
                      chunks[e].pos \notin desired /\ ~QContains(m.uq, e) }
  IN [loaded |-> loaded, lq |-> QPush(m.lq, toLoad), uq |-> QPush(m.uq, toUnload)]

\* world.rs:161: for ev in player_move_chunk_event.read()
RECURSIVE HandleEvents(_, _)
HandleEvents(m, evs) ==
  IF evs = <<>> THEN m ELSE HandleEvents(HandleEvent(m, Head(evs)), Tail(evs))

\* world.rs:156-196
UpdateChunkManager ==
  /\ ~crashed
  /\ phase = "manager"
  /\ LET m == HandleEvents([loaded |-> loaded_chunks, lq |-> load_queue,
                            uq |-> unload_queue], events)
     IN /\ loaded_chunks' = m.loaded
        /\ load_queue' = m.lq
        /\ unload_queue' = m.uq
  /\ events' = <<>>
  /\ tickSpawned' = {}
  /\ lastLinks' = NoEntities
  /\ linkWorld' = {}
  /\ meshRead' = NoEntities
  /\ meshWorld' = {}
  /\ Advance
  /\ UNCHANGED << evSent, playerPos, chunks, spawned, seed, world, crashed, pure >>

\* world.rs:218: world.chunks.iter().find(|(p, _)| *p == pos), as the index
\* of the first entry for pos, 0 when there is none
FindSaved(pos) ==
  LET hits == { i \in 1..Len(world) : world[i].pos = pos }
  IN IF hits = {} THEN 0 ELSE CHOOSE i \in hits : \A j \in hits : i <= j

\* Mutant of BuildChunk: the save is not consulted.
BuildChunkAlwaysGenerate(pos) ==
  [ok |-> TRUE, voxels |-> generate(pos, seed), dirty |-> TRUE]

\* world.rs:218-251: the components of the chunk spawned for pos
BuildChunk(pos) ==
  IF FindSaved(pos) # 0
  THEN LET decoded == from_rle(world[FindSaved(pos)].rle)
       IN [ok |-> decoded.ok, voxels |-> decoded.voxels, dirty |-> FALSE]
  ELSE [ok |-> TRUE, voxels |-> generate(pos, seed), dirty |-> TRUE]

\* world.rs:220-233, 236-250: the bundle commands.spawn receives
SpawnBundle(pos, built) ==
  [ pos |-> pos,
    voxels |-> built.voxels,
    dirty |-> built.dirty,
    nreq |-> TRUE,
    mreq |-> TRUE,
    neighbors |-> DefaultNeighbors,
    mesh |-> << >> ]

\* Mutant of NeighborsToUpdate: the loop of world.rs:254-261 left out.
NeighborsToUpdateNone(pos) == {}

\* world.rs:254-261: the chunks that existed when the system started and lie
\* next to pos; each gets both update requests
NeighborsToUpdate(pos) ==
  { e \in DOMAIN chunks : chunks[e].pos \in OffsetSet(pos) }

\* Mutant of LoadOne: the test of world.rs:212 negated.
LoadOneInverted(s, pos, rest) ==
  IF pos \notin s.loaded THEN [s EXCEPT !.q = rest]
  ELSE LET built == BuildChunk(pos)
           entity == ChunkEntity(pos, s.count[pos])
       IN IF ~built.ok THEN [s EXCEPT !.q = rest, !.ok = FALSE]
          ELSE [ q |-> rest,
                 loaded |-> s.loaded \cup {pos},
                 new |-> (entity :> SpawnBundle(pos, built)) @@ s.new,
                 count |-> [s.count EXCEPT ![pos] = @ + 1],
                 req |-> s.req \cup NeighborsToUpdate(pos),
                 ok |-> TRUE ]

\* world.rs:211-262: one pass of the loop body with pos popped, on the loop
\* state s = [q, loaded, new, count, req, ok]
LoadOne(s, pos, rest) ==
  IF pos \in s.loaded THEN [s EXCEPT !.q = rest]
  ELSE LET built == BuildChunk(pos)
           entity == ChunkEntity(pos, s.count[pos])
       IN IF ~built.ok THEN [s EXCEPT !.q = rest, !.ok = FALSE]
          ELSE [ q |-> rest,
                 loaded |-> s.loaded \cup {pos},
                 new |-> (entity :> SpawnBundle(pos, built)) @@ s.new,
                 count |-> [s.count EXCEPT ![pos] = @ + 1],
                 req |-> s.req \cup NeighborsToUpdate(pos),
                 ok |-> TRUE ]

\* world.rs:210-211: the outcomes of one pass of the loop from loop state s;
\* a pass that pops None does nothing, and a panic ends the loop
LoadPass(s) ==
  IF ~s.ok \/ s.q = <<>> THEN {s}
  ELSE { LoadOne(s, pr[1], pr[2]) : pr \in QPops(s.q) }

\* Mutant of LoadLoop: 0..=CHUNKS_PER_FRAME at world.rs:210, one pass more.
RECURSIVE LoadLoopInclusive(_, _)
LoadLoopInclusive(S, n) ==
  IF n < 0 THEN S
  ELSE LoadLoopInclusive(UNION { LoadPass(s) : s \in S }, n - 1)

\* world.rs:210-263: the loop states n passes can lead to from those of S
RECURSIVE LoadLoop(_, _)
LoadLoop(S, n) ==
  IF n = 0 THEN S ELSE LoadLoop(UNION { LoadPass(s) : s \in S }, n - 1)

\* world.rs:265-269: the outcomes << entity to despawn or none, rest >> of
\* the single pop of unload_queue
UnloadPops ==
  IF unload_queue = <<>> THEN { << NoEntity, unload_queue >> }
  ELSE { << IF pr[1] \in DOMAIN chunks THEN pr[1] ELSE NoEntity, pr[2] >> :
           pr \in QPops(unload_queue) }

\* Mutant of ApplyLoadCommands: the despawn also requests the link and mesh
\* updates of the chunks next to the despawned one.
ApplyLoadCommandsCascade(s, gone) ==
  LET cascade == IF gone \in DOMAIN chunks THEN NeighborsToUpdate(chunks[gone].pos)
                 ELSE {}
      requested == [ e \in DOMAIN chunks |->
                       IF e \in s.req \cup cascade
                       THEN [chunks[e] EXCEPT !.nreq = TRUE, !.mreq = TRUE]
                       ELSE chunks[e] ]
      all == s.new @@ requested
  IN [ e \in DOMAIN all \ {gone} |-> all[e] ]

\* The commands of load_local_chunks applied in the order they were queued:
\* spawns and request inserts, then the despawn.
ApplyLoadCommands(s, gone) ==
  LET requested == [ e \in DOMAIN chunks |->
                       IF e \in s.req
                       THEN [chunks[e] EXCEPT !.nreq = TRUE, !.mreq = TRUE]
                       ELSE chunks[e] ]
      all == s.new @@ requested
  IN [ e \in DOMAIN all \ {gone} |-> all[e] ]

\* world.rs:198-274
LoadLocalChunks ==
  /\ ~crashed
  /\ phase = "load"
  /\ \E s \in LoadLoop({ [ q |-> load_queue, loaded |-> loaded_chunks,
                           new |-> NoEntities, count |-> spawned, req |-> {},
                           ok |-> TRUE ] }, CHUNKS_PER_FRAME) :
       IF ~s.ok
       THEN /\ crashed' = TRUE
            /\ UNCHANGED << phase, moved, chunks, spawned, loaded_chunks, load_queue,
                            unload_queue, tickSpawned >>
       ELSE \E un \in UnloadPops :
              /\ load_queue' = s.q
              /\ loaded_chunks' = s.loaded
              /\ spawned' = s.count
              /\ unload_queue' = un[2]
              /\ chunks' = ApplyLoadCommands(s, un[1])
              /\ tickSpawned' = DOMAIN s.new
              /\ Advance
              /\ UNCHANGED crashed
  /\ UNCHANGED << events, evSent, playerPos, seed, world,
                  lastLinks, linkWorld, meshRead, meshWorld, pure >>

\* world.rs:117-119: all_chunks.iter().find_map(..) for one offset.  The
\* query (world.rs:113) has no filter on Chunk, so the player entity is among
\* its items; it comes first, its table being the oldest (a query visits the
\* tables in the order they were created, and setup runs at Startup).
FindEntityAt(self, pos) ==
  LET found == { e \in DOMAIN chunks : e # self /\ chunks[e].pos = pos }
  IN IF playerPos = pos THEN PlayerEntity
     ELSE IF found # {} THEN CHOOSE e \in found : TRUE
     ELSE NoEntity

\* world.rs:116-120
ComputeNeighbors(e) ==
  [ i \in 1..6 |-> FindEntityAt(e, offsets(chunks[e].pos)[i]) ]

\* world.rs:110-127
UpdateChunkNeighbors ==
  /\ ~crashed
  /\ phase = "neighbors"
  /\ LET requested == { e \in DOMAIN chunks : chunks[e].nreq }
     IN /\ chunks' = [ e \in DOMAIN chunks |->
                         IF e \in requested
                         THEN [chunks[e] EXCEPT !.neighbors = ComputeNeighbors(e),
                                                !.nreq = FALSE]
                         ELSE chunks[e] ]
        /\ lastLinks' = [ e \in requested |-> ComputeNeighbors(e) ]
  /\ linkWorld' = DOMAIN chunks
  /\ Advance
  /\ UNCHANGED << events, evSent, playerPos, spawned, loaded_chunks, load_queue,
                  unload_queue, seed, world, crashed, tickSpawned, meshRead, meshWorld,
                  pure >>

\* world.rs:136-138: the neighbours generate_mesh is given: a slot whose
\* entity has no Chunk component counts as absent
NeighborRefs(e) ==
  [ i \in 1..6 |->
      IF chunks[e].neighbors[i] \in DOMAIN chunks THEN chunks[e].neighbors[i]
      ELSE NoEntity ]

\* world.rs:129-147.  A mesh is a function of the chunk's voxels and of the
\* voxels of the neighbours it was given; the model keeps the neighbours.
UpdateChunkMeshes ==
  /\ ~crashed
  /\ phase = "meshes"
  /\ LET requested == { e \in DOMAIN chunks : chunks[e].mreq }
     IN /\ chunks' = [ e \in DOMAIN chunks |->
                         IF e \in requested
                         THEN [chunks[e] EXCEPT !.mesh = NeighborRefs(e),
                                                !.mreq = FALSE]
                         ELSE chunks[e] ]
        /\ meshRead' = [ e \in requested |-> chunks[e].neighbors ]
  /\ meshWorld' = DOMAIN chunks
  /\ Advance
  /\ UNCHANGED << events, evSent, playerPos, spawned, loaded_chunks, load_queue,
                  unload_queue, seed, world, crashed, tickSpawned, lastLinks, linkWorld,
                  pure >>

(***************************************************************************)
(* Start-up                                                                *)
(***************************************************************************)

\* A chunk an earlier run of the program has saved.
SavedChunk == << "Stone", "Stone", "Stone", "Stone", "Dirt", "Dirt", "Grass", "Air" >>

\* world.rs:39: the save read at start-up: none (unwrap_or_default), or a
\* file an earlier run wrote with WorldSave::from_chunks and save
WorldSaves ==
  { << [pos |-> <<1, 0, 0>>, rle |-> to_rle(SavedChunk)],
       [pos |-> <<0, 1, 0>>, rle |-> to_rle(DefaultChunk)] >> }

\* world.rs:38: the seed drawn at start-up
Seeds == {7}

\* The state after the Startup schedule: world.rs:38-40 and player.rs:51-65
Init ==
  /\ phase = ChainOrder[1]
  /\ events = << <<0, 0, 0>> >>
  /\ evSent = 1
  /\ moved = FALSE
  /\ playerPos = <<0, 0, 0>>
  /\ chunks = NoEntities
  /\ spawned = [pos \in Universe |-> 0]
  /\ loaded_chunks = {}
  /\ load_queue = << >>
  /\ unload_queue = << >>
  /\ seed \in Seeds
  /\ world \in WorldSaves
  /\ crashed = FALSE
  /\ tickSpawned = {}
  /\ lastLinks = NoEntities
  /\ linkWorld = {}
  /\ meshRead = NoEntities
  /\ meshWorld = {}
  /\ fpc = "none"
  /\ fin = << >>
  /\ fout = << >>

Next ==
  \/ PlayerMove
  \/ UpdateChunkManager
  \/ LoadLocalChunks
  \/ UpdateChunkNeighbors
  \/ UpdateChunkMeshes

Spec == Init /\ [][Next]_vars

\* The chain alone: the frames of a run in which the player stays in its
\* chunk, so that the event of player.rs:64 is the only one.
NextTick ==
  \/ UpdateChunkManager
  \/ LoadLocalChunks
  \/ UpdateChunkNeighbors
  \/ UpdateChunkMeshes

\* The host runs the Update schedule frame after frame.
SpecStill == Init /\ [][NextTick]_vars /\ WF_vars(NextTick)

\* The events sent after the world has settled round the start-up position.
MaxMoves == 2

\* The chunk entities of the settled world: one per position of the first
\* desired set, the first spawned for it.
SettledEntities == { ChunkEntity(pos, 0) : pos \in DesiredChunks(<<0, 0, 0>>, RENDER_DISTANCE) }

\* world.rs:116-120 in the settled world: the slot towards the player's
\* position holds the player entity, another slot the chunk at its position
SettledLink(pos) ==
  IF pos = <<0, 0, 0>> THEN PlayerEntity
  ELSE IF ChunkEntity(pos, 0) \in SettledEntities THEN ChunkEntity(pos, 0)
  ELSE NoEntity

\* world.rs:136-138 in the settled world: the player entity has no Chunk
SettledRef(pos) ==
  IF SettledLink(pos) \in SettledEntities THEN SettledLink(pos) ELSE NoEntity

\* The state the chain reaches from Init with the start-up event as the only
\* event, one frame after the last chunk was loaded: every chunk of the
\* first desired set exists, linked and meshed, and nothing is queued.
InitSettled ==
  /\ phase = ChainOrder[1]
  /\ events = << >>
  /\ evSent = 1
  /\ moved = FALSE
  /\ playerPos = <<0, 0, 0>>
  /\ seed \in Seeds
  /\ world \in WorldSaves
  /\ chunks = [ e \in SettledEntities |->
                  [ pos |-> e.pos,
                    voxels |-> BuildChunk(e.pos).voxels,
                    dirty |-> BuildChunk(e.pos).dirty,
                    nreq |-> FALSE,
                    mreq |-> FALSE,
                    neighbors |-> [i \in 1..6 |-> SettledLink(offsets(e.pos)[i])],
                    mesh |-> [i \in 1..6 |-> SettledRef(offsets(e.pos)[i])] ] ]
  /\ spawned = [pos \in Universe |-> IF ChunkEntity(pos, 0) \in SettledEntities THEN 1 ELSE 0]
  /\ loaded_chunks = { e.pos : e \in SettledEntities }
  /\ load_queue = << >>
  /\ unload_queue = << >>
  /\ crashed = FALSE
  /\ tickSpawned = {}
  /\ lastLinks = NoEntities
  /\ linkWorld = SettledEntities
  /\ meshRead = NoEntities
  /\ meshWorld = SettledEntities
  /\ fpc = "none"
  /\ fin = << >>
  /\ fout = << >>

\* player.rs:114-126, in the settled world
PlayerRoam == PlayerMoveWithin(1 + MaxMoves)

NextRoam ==
  \/ PlayerRoam
  \/ UpdateChunkManager
  \/ LoadLocalChunks
  \/ UpdateChunkNeighbors
  \/ UpdateChunkMeshes

\* The settled world with a player that moves.
SpecRoam == InitSettled /\ [][NextRoam]_vars

\* The world is not running.
Idle ==
  /\ phase = "none"
  /\ events = << >>
  /\ evSent = 0
  /\ moved = FALSE
  /\ playerPos = <<0, 0, 0>>
  /\ chunks = NoEntities
  /\ spawned = [pos \in Universe |-> 0]
  /\ loaded_chunks = {}
  /\ load_queue = << >>
  /\ unload_queue = << >>
  /\ seed = 0
  /\ world = << >>
  /\ crashed = FALSE
  /\ tickSpawned = {}
  /\ lastLinks = NoEntities
  /\ linkWorld = {}
  /\ meshRead = NoEntities
  /\ meshWorld = {}

(***************************************************************************)
(* Saving: WorldSave::from_chunks (world.rs:80-94), called by a system of  *)
(* the host between two frames.  The repository holds no caller.           *)
(***************************************************************************)

\* The orders in which a query can visit the entities of set S.
Orders(S) ==
  { o \in [1..Cardinality(S) -> S] : \A i, j \in 1..Cardinality(S) : o[i] = o[j] => i = j }

\* Mutant of DirtyChunks: the query without its With<ChunkDirty> filter.
DirtyChunksUnfiltered == DOMAIN chunks

\* world.rs:82: Query<(Entity, &ChunkPos, &Chunk<V>), With<ChunkDirty>>
DirtyChunks == { e \in DOMAIN chunks : chunks[e].dirty }

\* world.rs:90: the entry from_chunks writes for an entity
SaveEntry(e) == [pos |-> chunks[e].pos, rle |-> to_rle(chunks[e].voxels)]

\* world.rs:81-94, with its commands applied.  fin keeps the chunks as they
\* were, fout the WorldSave returned.
FromChunks ==
  /\ ~crashed
  /\ phase = ChainOrder[1]
  /\ fpc = "none"
  /\ \E o \in Orders(DirtyChunks) :
       fout' = [i \in 1..Len(o) |-> SaveEntry(o[i])]
  /\ chunks' = [ e \in DOMAIN chunks |->
                   IF e \in DirtyChunks THEN [chunks[e] EXCEPT !.dirty = FALSE]
                   ELSE chunks[e] ]
  /\ fin' = chunks
  /\ fpc' = "saved"
  /\ UNCHANGED << phase, events, evSent, moved, playerPos, spawned, loaded_chunks,
                  load_queue, unload_queue, seed, world, crashed,
                  tickSpawned, lastLinks, linkWorld, meshRead, meshWorld >>

NextSave == NextTick \/ FromChunks

SpecSave == Init /\ [][NextSave]_vars

(***************************************************************************)
(* Generation: calls of Chunk::generate (chunk.rs:126-172) made while the  *)
(* chain of world.rs:41-50 runs.  fin keeps the arguments of the calls in  *)
(* their order, fout the chunks returned.                                  *)
(***************************************************************************)

\* Calls of generate in one behaviour.
MaxCalls == 3

\* The chunk positions and the seeds generate is called with.
GenPositions == { <<0, 0, 0>>, <<-1, -1, 1>> }

GenSeeds == Seeds \cup {8}

\* Mutant of Generate: noise that carries state from one call to the next,
\* as if the generator were seeded once and drawn from by every call.
GenerateCarrying ==
  /\ ~crashed
  /\ fpc \in {"none", "generated"}
  /\ Len(fin) < MaxCalls
  /\ \E pos \in GenPositions, sd \in GenSeeds :
       /\ fin' = Append(fin, <<pos, sd>>)
       /\ fout' = Append(fout, generate(pos, sd + Len(fin)))
  /\ fpc' = "generated"
  /\ UNCHANGED running

\* chunk.rs:126-172, called with a position and a seed
Generate ==
  /\ ~crashed
  /\ fpc \in {"none", "generated"}
  /\ Len(fin) < MaxCalls
  /\ \E pos \in GenPositions, sd \in GenSeeds :
       /\ fin' = Append(fin, <<pos, sd>>)
       /\ fout' = Append(fout, generate(pos, sd))
  /\ fpc' = "generated"
  /\ UNCHANGED running

NextGenerate == NextTick \/ Generate

SpecGenerate == Init /\ [][NextGenerate]_vars

(***************************************************************************)
(* Cells: get, get_mut and to_index (chunk.rs:175-193) on their own, with  *)
(* the chunks Chunk::default and Chunk::generate build.                    *)
(***************************************************************************)

\* pos: [u8; 3] within the chunk (chunk.rs:188-191)
LocalCoords ==
  (0..(CHUNK_WIDTH - 1)) \X (0..(CHUNK_WIDTH - 1)) \X (0..(CHUNK_WIDTH - 1))

\* The chunks written to.
IndexChunks ==
  {DefaultChunk, SavedChunk} \cup { generate(pos, sd) : pos \in GenPositions, sd \in GenSeeds }

InitIndex ==
  /\ Idle
  /\ \/ fpc = "cell" /\ fin \in [chunk : IndexChunks, pos : LocalCoords, v : Block]
     \/ fpc = "args" /\ fin \in [pos : GenPositions, seed : GenSeeds]
     \/ fpc = "new" /\ fin = << >>
  /\ fout = << >>

\* chunk.rs:181-184
WriteCell ==
  /\ fpc = "cell"
  /\ fout' = get_mut(fin.chunk, fin.pos[1], fin.pos[2], fin.pos[3], fin.v)
  /\ fpc' = "written"
  /\ UNCHANGED << fin, running >>

\* chunk.rs:126-172
FillChunk ==
  /\ fpc = "args"
  /\ fout' = generate(fin.pos, fin.seed)
  /\ fpc' = "filled"
  /\ UNCHANGED << fin, running >>

\* chunk.rs:22-26
NewChunk ==
  /\ fpc = "new"
  /\ fout' = DefaultChunk
  /\ fpc' = "default"
  /\ UNCHANGED << fin, running >>

NextIndex == WriteCell \/ FillChunk \/ NewChunk

SpecIndex == InitIndex /\ [][NextIndex]_vars

(***************************************************************************)
(* The codec on its own: to_rle of any chunk followed by from_rle, and     *)
(* from_rle of any run list.                                               *)
(***************************************************************************)

\* Runs in a run list given to from_rle.
MaxRuns == 3

\* A run: a u16 count and a voxel (world.rs:65)
Runs == (0..U16_MAX) \X Block

\* The run lists of n runs.
RunLists(n) == [1..n -> Runs]

InitCodec ==
  /\ Idle
  /\ \/ fpc = "chunk" /\ fin \in ChunkData
     \/ fpc = "runs" /\ \E n \in 0..MaxRuns : fin \in RunLists(n)
  /\ fout = << >>

\* chunk.rs:462-478 applied to the chunk
Encode ==
  /\ fpc = "chunk"
  /\ fout' = to_rle(fin)
  /\ fpc' = "encoded"
  /\ UNCHANGED << fin, running >>

\* chunk.rs:480-487 applied to what to_rle returned
DecodeEncoded ==
  /\ fpc = "encoded"
  /\ fout' = [rle |-> fout, chunk |-> from_rle(fout)]
  /\ fpc' = "roundtrip"
  /\ UNCHANGED << fin, running >>

\* chunk.rs:480-487 applied to the run list
Decode ==
  /\ fpc = "runs"
  /\ fout' = from_rle(fin)
  /\ fpc' = "decoded"
  /\ UNCHANGED << fin, running >>

NextCodec == Encode \/ DecodeEncoded \/ Decode

SpecCodec == InitCodec /\ [][NextCodec]_vars

(***************************************************************************)
(* The desired set on its own: world.rs:169-182 for any observer position  *)
(* and any render distance up to MaxRadius.                                *)
(***************************************************************************)

MaxRadius == 2

\* Chunk coordinates of the observer range over -MaxCoord..MaxCoord.
MaxCoord == 1

InitDesired ==
  /\ Idle
  /\ fpc = "event"
  /\ fin \in [ pos : (-MaxCoord..MaxCoord) \X (-MaxCoord..MaxCoord) \X (-MaxCoord..MaxCoord),
                r : 0..MaxRadius ]
  /\ fout = << >>

\* world.rs:169-182
ComputeDesired ==
  /\ fpc = "event"
  /\ fout' = DesiredChunks(fin.pos, fin.r)
  /\ fpc' = "desired"
  /\ UNCHANGED << fin, running >>

NextDesired == ComputeDesired

SpecDesired == InitDesired /\ [][NextDesired]_vars

(***************************************************************************)
(* Meshing: face.rs and chunk.rs:195-460.  Vertex coordinates are whole    *)
(* numbers; a texture coordinate n/d is the pair <<n, d>>.                  *)
(***************************************************************************)

\* face.rs:41-48, Face::ALL, in the order of enum Face (face.rs:1-9)
FaceALL == <<"Left", "Right", "Bottom", "Top", "Back", "Front">>

Face == {FaceALL[i] : i \in 1..6}

\* face as usize, plus one: the place of the face's slot in the neighbours
FaceSlot(face) == CHOOSE i \in 1..6 : FaceALL[i] = face

\* face.rs:19-28
normal(face) ==
  CASE face = "Left" -> <<-1, 0, 0>>
    [] face = "Right" -> <<1, 0, 0>>
    [] face = "Bottom" -> <<0, -1, 0>>
    [] face = "Top" -> <<0, 1, 0>>
    [] face = "Back" -> <<0, 0, -1>>
    [] face = "Front" -> <<0, 0, 1>>

\* Mutant of positions: the front face wound as the back face is, in its
\* own plane.
positions_front_reversed(face, min, max) ==
  LET x0 == min[1]
      y0 == min[2]
      x1 == max[1]
      y1 == max[2]
      z1 == max[3]
  IN << <<x0, y0, z1>>, <<x0, y1, z1>>, <<x1, y1, z1>>, <<x1, y0, z1>> >>

\* face.rs:30-39
positions(face, min, max) ==
  LET x0 == min[1]
      y0 == min[2]
      z0 == min[3]
      x1 == max[1]
      y1 == max[2]
      z1 == max[3]
  IN CASE face = "Left" -> << <<x0, y0, z1>>, <<x0, y1, z1>>, <<x0, y1, z0>>, <<x0, y0, z0>> >>
       [] face = "Right" -> << <<x1, y0, z0>>, <<x1, y1, z0>>, <<x1, y1, z1>>, <<x1, y0, z1>> >>
       [] face = "Bottom" -> << <<x1, y0, z1>>, <<x0, y0, z1>>, <<x0, y0, z0>>, <<x1, y0, z0>> >>
       [] face = "Top" -> << <<x1, y1, z0>>, <<x0, y1, z0>>, <<x0, y1, z1>>, <<x1, y1, z1>> >>
       [] face = "Back" -> << <<x0, y0, z0>>, <<x0, y1, z0>>, <<x1, y1, z0>>, <<x1, y0, z0>> >>
       [] face = "Front" -> << <<x1, y0, z1>>, <<x1, y1, z1>>, <<x0, y1, z1>>, <<x0, y0, z1>> >>

\* Option::None in a slot of [Option<&Chunk<V>>; 6]
NoChunk == << >>

\* is_some_and(|c| c.get(..).is_opaque()) of chunk.rs:416-457
SomeAndOpaque(nb, x, y, z) == nb # NoChunk /\ is_opaque(get(nb, x, y, z))

\* Mutant of cull_face: the neighbour is read at the coordinate of the voxel
\* itself, not at the mirrored one.
cull_face_unmirrored(data, pos, face, neighbors) ==
  LET adj == [i \in 1..3 |-> pos[i] + normal(face)[i]]
  IN IF \A i \in 1..3 : adj[i] \in 0..(CHUNK_WIDTH - 1)
     THEN is_opaque(get(data, adj[1], adj[2], adj[3]))
     ELSE SomeAndOpaque(neighbors[FaceSlot(face)], pos[1], pos[2], pos[3])

\* chunk.rs:411-460
cull_face(data, pos, face, neighbors) ==
  LET x == pos[1]
      y == pos[2]
      z == pos[3]
  IN CASE face = "Left" ->
            IF x = 0
            THEN SomeAndOpaque(neighbors[FaceSlot("Left")], CHUNK_WIDTH - 1, y, z)
            ELSE is_opaque(get(data, x - 1, y, z))
       [] face = "Right" ->
            IF x = CHUNK_WIDTH - 1
            THEN SomeAndOpaque(neighbors[FaceSlot("Right")], 0, y, z)
            ELSE is_opaque(get(data, x + 1, y, z))
       [] face = "Bottom" ->
            IF y = 0
            THEN SomeAndOpaque(neighbors[FaceSlot("Bottom")], x, CHUNK_WIDTH - 1, z)
            ELSE is_opaque(get(data, x, y - 1, z))
       [] face = "Top" ->
            IF y = CHUNK_WIDTH - 1
            THEN SomeAndOpaque(neighbors[FaceSlot("Top")], x, 0, z)
            ELSE is_opaque(get(data, x, y + 1, z))
       [] face = "Back" ->
            IF z = 0
            THEN SomeAndOpaque(neighbors[FaceSlot("Back")], x, y, CHUNK_WIDTH - 1)
            ELSE is_opaque(get(data, x, y, z - 1))
       [] face = "Front" ->
            IF z = CHUNK_WIDTH - 1
            THEN SomeAndOpaque(neighbors[FaceSlot("Front")], x, y, 0)
            ELSE is_opaque(get(data, x, y, z + 1))

\* V::all().iter().position(|v| v == voxel).unwrap() of chunk.rs:278, for a
\* voxel type whose all() is the sequence all
AtlasIndex(all, voxel) == (CHOOSE i \in 1..Len(all) : all[i] = voxel) - 1

\* Mutant of FaceRow: the rows in the order of enum Face.
FaceRowEnumOrder(face) == FaceSlot(face) - 1

\* chunk.rs:280-287: the atlas row of a face, v0 in units of unit_v
FaceRow(face) ==
  CASE face = "Left" -> 0
    [] face = "Bottom" -> 1
    [] face = "Back" -> 2
    [] face = "Right" -> 3
    [] face = "Top" -> 4
    [] face = "Front" -> 5

\* chunk.rs:275-292: the four texture coordinates of a face
FaceUVs(all, voxel, face) ==
  LET unit_u == Len(all) - 1
      unit_v == 6
      u0 == << AtlasIndex(all, voxel), unit_u >>
      v0 == << FaceRow(face), unit_v >>
      u1 == << u0[1] + 1, unit_u >>
      v1 == << v0[1] + 1, unit_v >>
  IN << <<u0, v1>>, <<u0, v0>>, <<u1, v0>>, <<u1, v1>> >>

\* chunk.rs:294-301 and 373-380
QuadIndices(base_index) ==
  << base_index, base_index + 1, base_index + 2,
     base_index, base_index + 2, base_index + 3 >>

\* chunk.rs:200-203: the four buffers, empty
EmptyMesh == [positions |-> << >>, normals |-> << >>, uvs |-> << >>, indices |-> << >>]

\* The four buffers after a quad of the face from min to max, textured as
\* voxel, was pushed.
PushQuad(mesh, all, voxel, face, min, max) ==
  [ positions |-> mesh.positions \o positions(face, min, max),
    normals |-> mesh.normals \o [i \in 1..4 |-> normal(face)],
    uvs |-> mesh.uvs \o FaceUVs(all, voxel, face),
    indices |-> mesh.indices \o QuadIndices(Len(mesh.positions)) ]

\* The buffers hold as many normals as positions (Mesh takes one of each per
\* vertex).  The loops below test it first, which also makes TLC evaluate
\* the buffers once per iteration, not all nested at the end.
Aligned(mesh) == Len(mesh.positions) = Len(mesh.normals)

\* chunk.rs:254-302
add_face_if_visible(data, all, pos, face, voxel, neighbors, mesh) ==
  IF cull_face(data, pos, face, neighbors) THEN mesh
  ELSE PushQuad(mesh, all, voxel, face, pos, [i \in 1..3 |-> pos[i] + 1])

\* chunk.rs:226-237: the loop over Face::ALL, from the face of place f on
RECURSIVE MeshFaces(_, _, _, _, _, _)
MeshFaces(data, all, pos, neighbors, mesh, f) ==
  IF ~Aligned(mesh) \/ f > 6 THEN mesh
  ELSE MeshFaces(data, all, pos, neighbors,
                 add_face_if_visible(data, all, pos, FaceALL[f],
                                     get(data, pos[1], pos[2], pos[3]), neighbors, mesh),
                 f + 1)

\* The cell the three nested loops over 0..CHUNK_WIDTH reach n-th, the
\* outermost loop variable first.
LoopCell(n) ==
  << n \div (CHUNK_WIDTH * CHUNK_WIDTH), (n \div CHUNK_WIDTH) % CHUNK_WIDTH, n % CHUNK_WIDTH >>

\* Mutant of MeshCells: the test of chunk.rs:222-224 left out.
RECURSIVE MeshCellsAll(_, _, _, _, _)
MeshCellsAll(data, all, neighbors, mesh, n) ==
  IF ~Aligned(mesh) \/ n >= CHUNK_SIZE THEN mesh
  ELSE MeshCellsAll(data, all, neighbors,
                    MeshFaces(data, all, LoopCell(n), neighbors, mesh, 1), n + 1)

\* chunk.rs:217-240: the loops over x, y and z, from the n-th cell on
RECURSIVE MeshCells(_, _, _, _, _)
MeshCells(data, all, neighbors, mesh, n) ==
  IF ~Aligned(mesh) \/ n >= CHUNK_SIZE THEN mesh
  ELSE LET pos == LoopCell(n)
       IN MeshCells(data, all, neighbors,
                    IF ~is_opaque(get(data, pos[1], pos[2], pos[3])) THEN mesh
                    ELSE MeshFaces(data, all, pos, neighbors, mesh, 1),
                    n + 1)

\* chunk.rs:195-252, for a voxel type whose all() is the sequence all
generate_mesh(data, all, neighbors) == MeshCells(data, all, neighbors, EmptyMesh, 0)

\* chunk.rs:327-336: the width the first while loop ends with
RECURSIVE GreedyWidth(_, _, _, _, _, _, _, _, _)
GreedyWidth(data, face, neighbors, mask, a, b, c, block, width) ==
  IF /\ a + width < CHUNK_WIDTH
     /\ ~ \/ cull_face(data, <<a + width, b, c>>, face, neighbors)
          \/ get(data, a + width, b, c) # block
          \/ <<b, a + width>> \in mask
  THEN GreedyWidth(data, face, neighbors, mask, a, b, c, block, width + 1)
  ELSE width

\* chunk.rs:338-347: the height the second while loop ends with
RECURSIVE GreedyHeight(_, _, _, _, _, _, _, _, _)
GreedyHeight(data, face, neighbors, mask, a, b, c, width, height) ==
  IF /\ b + height < CHUNK_WIDTH
     /\ \A w \in 0..(width - 1) :
          ~ \/ cull_face(data, <<a + w, c, b + height>>, face, neighbors)
            \/ <<b + height, a + w>> \in mask
  THEN GreedyHeight(data, face, neighbors, mask, a, b, c, width, height + 1)
  ELSE height

\* chunk.rs:361-371: the corners of the quad
GreedyCorners(face, a, b, c, width, height) ==
  CASE face \in {"Left", "Right"} ->
         << <<c, a, b>>, <<c + 1, a + width, b + height>> >>
    [] face \in {"Bottom", "Top"} ->
         << <<a, c, b>>, <<a + width, c + 1, b + height>> >>
    [] face \in {"Back", "Front"} ->
         << <<a, b, c>>, <<a + width, b + height, c + 1>> >>

\* chunk.rs:318-404: the body of the innermost loop; g holds the mask (the
\* set of its true entries, as <<row, column>>) and the four buffers
GreedyCell(data, all, face, neighbors, g, a, b, c) ==
  IF <<b, a>> \in g.mask THEN g
  ELSE IF cull_face(data, <<a, b, c>>, face, neighbors) THEN g
  ELSE LET block == get(data, a, b, c)
           width == GreedyWidth(data, face, neighbors, g.mask, a, b, c, block, 1)
           height == GreedyHeight(data, face, neighbors, g.mask, a, b, c, width, 1)
           corners == GreedyCorners(face, a, b, c, width, height)
       IN [ mask |-> g.mask \cup { <<b + h, a + w>> : h \in 0..(height - 1),
                                                       w \in 0..(width - 1) },
            mesh |-> PushQuad(g.mesh, all, block, face, corners[1], corners[2]) ]

\* chunk.rs:315-407: the loops over c, b and a, from the n-th cell on
RECURSIVE GreedyCells(_, _, _, _, _, _)
GreedyCells(data, all, face, neighbors, g, n) ==
  IF ~Aligned(g.mesh) \/ n >= CHUNK_SIZE THEN g
  ELSE LET cell == LoopCell(n)
       IN GreedyCells(data, all, face, neighbors,
                      GreedyCell(data, all, face, neighbors, g, cell[3], cell[2], cell[1]),
                      n + 1)

\* chunk.rs:304-409: the mask starts all false (chunk.rs:313)
greedy_quads(data, all, face, neighbors, mesh) ==
  GreedyCells(data, all, face, neighbors, [mask |-> {}, mesh |-> mesh], 0).mesh

\* chunk.rs:205-214: greedy_quads for every face of Face::ALL, from the face
\* of place f on
RECURSIVE GreedyFaces(_, _, _, _, _)
GreedyFaces(data, all, neighbors, mesh, f) ==
  IF ~Aligned(mesh) \/ f > 6 THEN mesh
  ELSE GreedyFaces(data, all, neighbors,
                   greedy_quads(data, all, FaceALL[f], neighbors, mesh), f + 1)

\* generate_mesh with the greedy strategy of chunk.rs:205-214 in place of the
\* loops of chunk.rs:217-240
generate_mesh_greedy(data, all, neighbors) == GreedyFaces(data, all, neighbors, EmptyMesh, 1)

(***************************************************************************)
(* Blocks: raw, all and lerp (block.rs) on their own.                      *)
(***************************************************************************)

\* The values of t given to lerp, in sixtieths: -MaxT..(60 + MaxT).
MaxT == 3

InitBlock ==
  /\ Idle
  /\ \/ fpc = "variant" /\ fin \in BlockVariants
     \/ fpc = "lerp" /\ fin \in [a : BlockVariants, b : BlockVariants, t : (-MaxT)..(60 + MaxT)]
  /\ fout = << >>

\* block.rs:47-53 and chunk.rs:278: raw() of a variant, its place in all()
\* and the atlas column the mesher gives it
Columns ==
  /\ fpc = "variant"
  /\ fout' = [ raw |-> raw(fin),
               places |-> { i \in 1..Len(ALL) : ALL[i] = fin },
               column |-> AtlasIndex(ALL, fin) ]
  /\ fpc' = "column"
  /\ UNCHANGED << fin, running >>

\* block.rs:39-45
Lerp ==
  /\ fpc = "lerp"
  /\ fout' = lerp(fin.a, fin.b, fin.t)
  /\ fpc' = "lerped"
  /\ UNCHANGED << fin, running >>

NextBlock == Columns \/ Lerp

SpecBlock == InitBlock /\ [][NextBlock]_vars

(***************************************************************************)
(* The mesher on its own: both strategies for a chunk and six optional     *)
(* neighbours.                                                             *)
(***************************************************************************)

\* The blocks of the chunks given to the mesher.
MeshBlocks == {"Air", "Stone", "Dirt"}

\* Cells of a chunk given to the mesher that hold the second opaque block.
MaxDirt == 1

\* The chunks given to the mesher.
MeshChunks ==
  { data \in [1..CHUNK_SIZE -> MeshBlocks] :
      Cardinality({ i \in 1..CHUNK_SIZE : data[i] = "Dirt" }) <= MaxDirt }

\* The chunk behind a present neighbour: every one of its six boundary
\* layers holds opaque and empty cells, and no two opposite boundary cells
\* of it are alike in all rows.
MeshNeighbor ==
  [i \in 1..CHUNK_SIZE |-> IF i = 1 \/ i = CHUNK_SIZE THEN "Air" ELSE "Stone"]

\* The six optional neighbours given to the mesher: none present, one
\* present, or all present.
MeshNeighbors ==
  { nb \in [1..6 -> {NoChunk, MeshNeighbor}] :
      Cardinality({ i \in 1..6 : nb[i] # NoChunk }) \in {0, 1, 6} }

\* A voxel type of three variants, one empty and two opaque.
ThreeVariants == <<"Air", "Stone", "Dirt">>

\* The voxel types the chunks are meshed for (V of Chunk<V>).
VoxelTypes == {ALL, ThreeVariants}

\* No neighbour present.
NoNeighbors == [i \in 1..6 |-> NoChunk]

\* The calls of the mesher: every chunk with every choice of neighbours for
\* Block, and every chunk without neighbours for every voxel type.
InitMesh ==
  /\ Idle
  /\ fpc = "mesh"
  /\ \/ fin \in [chunk : MeshChunks, neighbors : MeshNeighbors, all : {ALL}]
     \/ fin \in [chunk : MeshChunks, neighbors : {NoNeighbors}, all : VoxelTypes]
  /\ fout = << >>

\* chunk.rs:195-252
GenerateMesh ==
  /\ fpc = "mesh"
  /\ fout' = generate_mesh(fin.chunk, fin.all, fin.neighbors)
  /\ fpc' = "culled"
  /\ UNCHANGED << fin, running >>

\* chunk.rs:205-214
GenerateMeshGreedy ==
  /\ fpc = "mesh"
  /\ fout' = generate_mesh_greedy(fin.chunk, fin.all, fin.neighbors)
  /\ fpc' = "greedy"
  /\ UNCHANGED << fin, running >>

NextMesh == GenerateMesh

SpecMesh == InitMesh /\ [][NextMesh]_vars

NextGreedy == GenerateMeshGreedy

SpecGreedy == InitMesh /\ [][NextGreedy]_vars

(***************************************************************************)
(* One face of one voxel: the quad add_face_if_visible pushes for a voxel   *)
(* that stands alone in its chunk.                                         *)
(***************************************************************************)

\* The cells of a chunk.
Cells == (0..(CHUNK_WIDTH - 1)) \X (0..(CHUNK_WIDTH - 1)) \X (0..(CHUNK_WIDTH - 1))

\* The opaque variants of a voxel type, the voxels generate_mesh passes on
\* (chunk.rs:220-224).
OpaqueVariants(all) == { v \in { all[i] : i \in 1..Len(all) } : is_opaque(v) }

\* A chunk that is empty but for one voxel at pos.
LoneVoxel(pos, voxel) ==
  [i \in 1..CHUNK_SIZE |-> IF i = to_index(pos[1], pos[2], pos[3]) + 1 THEN voxel ELSE "Air"]

\* The calls of add_face_if_visible: every opaque variant of every voxel
\* type at every cell, for every face.
InitAtlas ==
  /\ Idle
  /\ fpc = "face"
  /\ \E all \in VoxelTypes :
       fin \in [all : {all}, voxel : OpaqueVariants(all), pos : Cells, face : Face]
  /\ fout = << >>

\* chunk.rs:254-302
AddFaceIfVisible ==
  /\ fpc = "face"
  /\ fout' = add_face_if_visible(LoneVoxel(fin.pos, fin.voxel), fin.all, fin.pos,
                                 fin.face, fin.voxel, NoNeighbors, EmptyMesh)
  /\ fpc' = "faced"
  /\ UNCHANGED << fin, running >>

NextAtlas == AddFaceIfVisible

SpecAtlas == InitAtlas /\ [][NextAtlas]_vars

(***************************************************************************)
(* The quad of a face of a box: Face::positions and Face::normal with the  *)
(* index pattern of the mesher.                                            *)
(***************************************************************************)

\* The largest coordinate of a corner of a box.
MaxCorner == 2

\* The corners of the boxes.
Corners == (0..MaxCorner) \X (0..MaxCorner) \X (0..MaxCorner)

\* The calls of Face::positions: every face of every pair of corners.
InitFace ==
  /\ Idle
  /\ fpc = "box"
  /\ fin \in [face : Face, min : Corners, max : Corners]
  /\ fout = << >>

\* chunk.rs:270-273 and 294-301: the vertices, the normal and the indices
\* of one quad pushed to empty buffers
FaceQuad ==
  /\ fpc = "box"
  /\ fout' = [ positions |-> positions(fin.face, fin.min, fin.max),
               normal |-> normal(fin.face),
               indices |-> QuadIndices(0) ]
  /\ fpc' = "quad"
  /\ UNCHANGED << fin, running >>

NextFace == FaceQuad

SpecFace == InitFace /\ [][NextFace]_vars

(***************************************************************************)
(* Properties                                                              *)
(***************************************************************************)

\* A tick boundary: the chain has run to its end, the next frame has not
\* begun.
TickBoundary == phase = ChainOrder[1]

\* The desired set of the event of player.rs:64.
FirstDesired == DesiredChunks(<<0, 0, 0>>, RENDER_DISTANCE)

\* C1: with the start-up event as the only event, running the chain frame
\* after frame leads to a state in which the positions of the existing
\* chunks are the desired set of that event, and no position is ever
\* spawned twice.
C1_StreamingConverges ==
  /\ <>(ExistingPositions = FirstDesired)
  /\ [](\A pos \in Universe : spawned[pos] <= 1)

C1_Witness ==
  /\ TickBoundary
  /\ ExistingPositions = FirstDesired
  /\ load_queue = << >>
  /\ \A pos \in FirstDesired : spawned[pos] = 1

\* C2: at every tick boundary, every non-empty slot of the ChunkNeighbors of
\* an existing chunk holds an existing chunk entity, the one whose ChunkPos
\* is this chunk's ChunkPos shifted by one along the slot's direction.
C2_NeighborSlotsAreChunks ==
  TickBoundary =>
    \A e \in DOMAIN chunks : \A i \in 1..6 :
      LET n == chunks[e].neighbors[i]
      IN n # NoEntity =>
           /\ n \in DOMAIN chunks
           /\ chunks[n].pos = offsets(chunks[e].pos)[i]

\* C3: at the end of a tick, for every chunk spawned in it, that chunk and
\* every existing chunk at one of its six adjacent positions have had their
\* links and their mesh recomputed in this tick, each time with the spawned
\* chunk in the world.
C3_LoadRefreshesNeighbors ==
  TickBoundary =>
    \A p \in tickSpawned \cap DOMAIN chunks : \A c \in DOMAIN chunks :
      (c = p \/ chunks[c].pos \in OffsetSet(chunks[p].pos)) =>
        /\ c \in DOMAIN lastLinks
        /\ p \in linkWorld
        /\ c \in DOMAIN meshRead
        /\ p \in meshWorld

\* A tick has spawned a chunk next to one that existed before the tick and
\* next to one spawned in the same tick.
C3_Witness ==
  /\ TickBoundary
  /\ \E p \in tickSpawned :
       /\ \E c \in DOMAIN chunks \ tickSpawned :
            chunks[c].pos \in OffsetSet(chunks[p].pos)
       /\ \E c \in tickSpawned : chunks[c].pos \in OffsetSet(chunks[p].pos)

\* C4: a run of load_local_chunks takes at most CHUNKS_PER_FRAME entries off
\* load_queue and spawns at most CHUNKS_PER_FRAME chunks, and takes at least
\* one entry off an unload_queue that is not empty; update_chunk_manager,
\* which runs before it in the tick, takes nothing off unload_queue.
C4_BudgetedDrain ==
  [][ /\ (phase = "manager" /\ phase' # "manager") =>
           QSet(unload_queue) \subseteq QSet(unload_queue')
      /\ (phase = "load" /\ phase' # "load") =>
           /\ QLen(load_queue) - QLen(load_queue') <= CHUNKS_PER_FRAME
           /\ Cardinality(DOMAIN chunks' \ DOMAIN chunks) <= CHUNKS_PER_FRAME
           /\ unload_queue # << >> => QLen(unload_queue') <= QLen(unload_queue) - 1
    ]_vars

\* load_local_chunks has used its whole budget with entries left in
\* load_queue, and has popped an unload_queue that held several entries.
C4_Witness ==
  /\ phase = "neighbors"
  /\ Cardinality(tickSpawned) = CHUNKS_PER_FRAME
  /\ load_queue # << >>
  /\ unload_queue # << >>

\* The save holds a run list for pos.
Saved(pos) == \E i \in 1..Len(world) : world[i].pos = pos

\* The chunk the run list saved for pos decodes to.
SavedVoxels(pos) ==
  Expand(world[CHOOSE i \in 1..Len(world) : world[i].pos = pos].rle)

\* C5: a chunk that load_local_chunks spawns for a position has the voxels
\* the saved run list of that position decodes to and is not dirty when the
\* save holds one, and has the voxels of generate(position, seed) and is
\* dirty otherwise; it is the only chunk spawned for the position in that
\* run, and the position is in loaded_chunks afterwards.
C5_LoadFromSaveOrGenerate ==
  [][ \A e \in DOMAIN chunks' \ DOMAIN chunks :
        LET pos == chunks'[e].pos
        IN /\ IF Saved(pos)
              THEN chunks'[e].voxels = SavedVoxels(pos) /\ ~chunks'[e].dirty
              ELSE chunks'[e].voxels = generate(pos, seed) /\ chunks'[e].dirty
           /\ \A f \in DOMAIN chunks' \ DOMAIN chunks : chunks'[f].pos = pos => f = e
           /\ spawned'[pos] = spawned[pos] + 1
           /\ pos \in loaded_chunks'
    ]_vars

\* A chunk decoded from the save and a generated chunk both exist.
C5_Witness ==
  \E e, f \in DOMAIN chunks :
    /\ Saved(chunks[e].pos) /\ ~chunks[e].dirty
    /\ ~Saved(chunks[f].pos) /\ chunks[f].dirty

\* The positions C6 is asked about: those of a cube that holds every desired
\* set of the specification with a margin of one.
Box ==
  LET m == MaxCoord + MaxRadius + 1
  IN (-m..m) \X (-m..m) \X (-m..m)

\* The square of the distance between two positions.
Dist2(p, q) ==
  (p[1] - q[1]) * (p[1] - q[1]) + (p[2] - q[2]) * (p[2] - q[2])
    + (p[3] - q[3]) * (p[3] - q[3])

\* C6: the desired set of an event at p for a render distance r holds a
\* position exactly when the square of its distance to p is at most r * r;
\* for r = 2 and p = (0,0,0) it holds (2,0,0) and not (2,1,0).
C6_DesiredIsSphere ==
  fpc = "desired" =>
    /\ fout \subseteq Box
    /\ \A q \in Box : q \in fout <=> Dist2(q, fin.pos) <= fin.r * fin.r
    /\ (fin.pos = <<0, 0, 0>> /\ fin.r = 2) =>
         <<2, 0, 0>> \in fout /\ <<2, 1, 0>> \notin fout

C6_Witness ==
  /\ fpc = "desired"
  /\ fin = [pos |-> <<0, 0, 0>>, r |-> 2]
  /\ <<2, 0, 0>> \in fout
  /\ <<2, 1, 0>> \notin fout

\* C7: the links update_chunk_meshes reads for a chunk whose links
\* update_chunk_neighbors has recomputed in the same tick are the recomputed
\* links.
C7_LinksBeforeMesh ==
  \A e \in DOMAIN meshRead \cap DOMAIN lastLinks : meshRead[e] = lastLinks[e]

\* A chunk was linked and meshed in one tick, and its links are not those
\* it was spawned with.
C7_Witness ==
  \E e \in DOMAIN meshRead \cap DOMAIN lastLinks :
    /\ e \in tickSpawned
    /\ lastLinks[e] # DefaultNeighbors

\* The sum of the counts of a run list.
RECURSIVE CountSum(_)
CountSum(rle) == IF rle = << >> THEN 0 ELSE rle[1][1] + CountSum(Tail(rle))

\* The run of rle that covers cell k, the cells counted from 1.
RunOf(rle, k) ==
  CHOOSE i \in 1..Len(rle) :
    CountSum(SubSeq(rle, 1, i - 1)) < k /\ k <= CountSum(SubSeq(rle, 1, i))

\* The runs of rle written out cell by cell give data.
ExpandsTo(rle, data) ==
  /\ CountSum(rle) = Len(data)
  /\ \A k \in 1..Len(data) : data[k] = rle[RunOf(rle, k)][2]

\* C8: from_rle(to_rle(chunk)) returns, and returns the chunk, for every
\* content of the voxel array.
C8_RoundTrip ==
  fpc = "roundtrip" => fout.chunk.ok /\ fout.chunk.voxels = fin

\* A generated chunk has gone through to_rle and from_rle.
C8_Witness ==
  /\ fpc = "roundtrip"
  /\ fin \in { generate(pos, sd) : pos \in Universe, sd \in Seeds }
  /\ fout.chunk.ok

\* C9: to_rle returns runs none of which has count 0, whose counts sum to
\* CHUNK_SIZE, which written out in order give the voxel array, and of which
\* two adjacent ones have the same value only when the first has the largest
\* count a u16 holds.
C9_RunsWellFormed ==
  fpc = "encoded" =>
    /\ \A i \in 1..Len(fout) : fout[i][1] # 0
    /\ CountSum(fout) = CHUNK_SIZE
    /\ ExpandsTo(fout, fin)
    /\ \A i \in 1..(Len(fout) - 1) :
         fout[i][2] = fout[i + 1][2] => fout[i][1] = U16_MAX

\* to_rle has split a run at the cap.
C9_Witness ==
  /\ fpc = "encoded"
  /\ \E i \in 1..(Len(fout) - 1) :
       fout[i][2] = fout[i + 1][2] /\ fout[i][1] = U16_MAX

\* C10: from_rle panics on a run list whose counts do not sum to CHUNK_SIZE,
\* and on one whose counts do returns the chunk the runs give when written
\* out in order.
C10_DecodeChecksLength ==
  fpc = "decoded" =>
    IF CountSum(fin) = CHUNK_SIZE
    THEN fout.ok /\ ExpandsTo(fin, fout.voxels)
    ELSE fout = Panic

\* from_rle has panicked on a run list with too many cells, not truncated it.
C10_Witness ==
  /\ fpc = "decoded"
  /\ CountSum(fin) > CHUNK_SIZE
  /\ ~fout.ok

\* The axis a direction runs along (x is 1), and whether it runs upwards.
Axis(face) ==
  CASE face \in {"Left", "Right"} -> 1
    [] face \in {"Bottom", "Top"} -> 2
    [] face \in {"Back", "Front"} -> 3

Upwards(face) == face \in {"Right", "Top", "Front"}

\* The slot of a direction in the order -x, +x, -y, +y, -z, +z.
SlotOf(face) == 2 * Axis(face) - (IF Upwards(face) THEN 0 ELSE 1)

\* The cell next to pos in a direction, which may lie outside the chunk.
Beside(pos, face) ==
  [pos EXCEPT ![Axis(face)] = pos[Axis(face)] + (IF Upwards(face) THEN 1 ELSE -1)]

\* The cell next to pos in a direction is in the chunk.
Inside(pos, face) == Beside(pos, face) \in Cells

\* The block of a cell of a chunk, the cells in the order x, y, z with z
\* running fastest.
BlockAt(data, pos) ==
  data[pos[1] * CHUNK_WIDTH * CHUNK_WIDTH + pos[2] * CHUNK_WIDTH + pos[3] + 1]

\* The cell of the neighbour that touches pos across the chunk's side.
Mirrored(pos, face) ==
  [pos EXCEPT ![Axis(face)] = CHUNK_WIDTH - 1 - pos[Axis(face)]]

\* The cell next to pos in a direction is opaque: a cell of the chunk, or of
\* the neighbour in that direction, none being no opaque cell.
AdjacentOpaque(data, neighbors, pos, face) ==
  IF Inside(pos, face)
  THEN is_opaque(BlockAt(data, Beside(pos, face)))
  ELSE /\ neighbors[SlotOf(face)] # NoChunk
       /\ is_opaque(BlockAt(neighbors[SlotOf(face)], Mirrored(pos, face)))

\* The exposed unit faces of a chunk.
Exposed(data, neighbors) ==
  { pf \in Cells \X Face :
      /\ is_opaque(BlockAt(data, pf[1]))
      /\ ~AdjacentOpaque(data, neighbors, pf[1], pf[2]) }

\* The unit quad of a cell and a direction: the four corners of the side of
\* the unit cube at the cell that looks in the direction, and the normal.
UnitQuad ==
  [ pf \in Cells \X Face |->
      LET pos == pf[1]
          face == pf[2]
      IN << { v \in (pos[1]..(pos[1] + 1)) \X (pos[2]..(pos[2] + 1)) \X (pos[3]..(pos[3] + 1)) :
                v[Axis(face)] = pos[Axis(face)] + (IF Upwards(face) THEN 1 ELSE 0) },
            [i \in 1..3 |-> IF i = Axis(face) THEN (IF Upwards(face) THEN 1 ELSE -1) ELSE 0] >> ]

\* The quads in the buffers of a mesh.
NumQuads(mesh) == Len(mesh.positions) \div 4

\* The vertices of the j-th quad of a mesh, and the normal of its vertices
\* (none when they differ).
Quad(mesh, j) ==
  << { mesh.positions[k] : k \in (4 * j - 3)..(4 * j) },
     IF \A k \in (4 * j - 3)..(4 * j) : mesh.normals[k] = mesh.normals[4 * j]
     THEN mesh.normals[4 * j] ELSE << >> >>

\* The quads of a mesh, in the order of the buffers.
Quads(mesh) == [j \in 1..NumQuads(mesh) |-> Quad(mesh, j)]

\* The buffers hold whole quads: four vertices with a normal and a texture
\* coordinate each, and two triangles over these four vertices.
WholeQuads(mesh) ==
  /\ Len(mesh.positions) = 4 * NumQuads(mesh)
  /\ Len(mesh.normals) = 4 * NumQuads(mesh)
  /\ Len(mesh.uvs) = 4 * NumQuads(mesh)
  /\ Len(mesh.indices) = 6 * NumQuads(mesh)
  /\ \A j \in 1..NumQuads(mesh) :
       LET b == 4 * (j - 1)
       IN SubSeq(mesh.indices, 6 * j - 5, 6 * j) = << b, b + 1, b + 2, b, b + 2, b + 3 >>

C12_BoundaryFacesUseOwnSlot ==
  fpc = "culled" =>
    LET quads == Quads(fout)
        emitted == { quads[j] : j \in 1..Len(quads) }
        outward == { pf \in Cells \X Face :
                      is_opaque(BlockAt(fin.chunk, pf[1])) /\ ~Inside(pf[1], pf[2]) }
        open(pf) == LET nb == fin.neighbors[SlotOf(pf[2])]
                    IN nb = NoChunk \/ ~is_opaque(BlockAt(nb, Mirrored(pf[1], pf[2])))
    IN { UnitQuad[pf] : pf \in outward } \cap emitted
         = { UnitQuad[pf] : pf \in { qf \in outward : open(qf) } }

\* One neighbour is present: a face towards it is emitted, another towards
\* it is not, and a face towards an empty slot is emitted.
C12_Witness ==
  /\ fpc = "culled"
  /\ LET emitted == { Quad(fout, j) : j \in 1..NumQuads(fout) }
     IN \E f, g \in Face :
          /\ fin.neighbors[SlotOf(f)] # NoChunk
          /\ fin.neighbors[SlotOf(g)] = NoChunk
          /\ \E p, q, r \in Cells :
               /\ is_opaque(BlockAt(fin.chunk, p)) /\ ~Inside(p, f)
               /\ is_opaque(BlockAt(fin.chunk, q)) /\ ~Inside(q, f)
               /\ is_opaque(BlockAt(fin.chunk, r)) /\ ~Inside(r, g)
               /\ UnitQuad[<<p, f>>] \in emitted
               /\ UnitQuad[<<q, f>>] \notin emitted
               /\ UnitQuad[<<r, g>>] \in emitted

\* The unit faces the j-th quad of a mesh covers.
UnitFacesOfQuad(mesh, j) ==
  LET face == CHOOSE f \in Face : normal(f) = mesh.normals[4 * j]
      vs == { mesh.positions[k] : k \in (4 * j - 3)..(4 * j) }
      lo == [i \in 1..3 |-> CHOOSE x \in { v[i] : v \in vs } : \A v \in vs : x <= v[i]]
      hi == [i \in 1..3 |-> CHOOSE x \in { v[i] : v \in vs } : \A v \in vs : x >= v[i]]
      range(i) == IF i = Axis(face)
                  THEN { lo[i] - (IF Upwards(face) THEN 1 ELSE 0) }
                  ELSE lo[i]..(hi[i] - 1)
  IN { << pos, face >> : pos \in range(1) \X range(2) \X range(3) }

\* The unit faces a mesh covers.
UnitFaces(mesh) == UNION { UnitFacesOfQuad(mesh, j) : j \in 1..NumQuads(mesh) }

\* C13: greedy_quads run for the six directions covers the same unit faces
\* as the face culling of generate_mesh, for every chunk and neighbours.
C13_GreedyCoversCulledFaces ==
  fpc = "greedy" =>
    UnitFaces(fout) = UnitFaces(generate_mesh(fin.chunk, fin.all, fin.neighbors))

\* The atlas rows of the directions.
AtlasRow(face) ==
  CASE face = "Left" -> 0
    [] face = "Bottom" -> 1
    [] face = "Back" -> 2
    [] face = "Right" -> 3
    [] face = "Top" -> 4
    [] face = "Front" -> 5

\* The rectangle of column k of n - 1 columns and of the row of a direction,
\* from <<u0, v1>> round to <<u1, v1>>.
AtlasRectangle(n, k, face) ==
  LET u0 == << k, n - 1 >>
      u1 == << k + 1, n - 1 >>
      v0 == << AtlasRow(face), 6 >>
      v1 == << AtlasRow(face) + 1, 6 >>
  IN << <<u0, v1>>, <<u0, v0>>, <<u1, v0>>, <<u1, v1>> >>

\* C14: the quad of a voxel with raw() = k in direction d has the texture
\* rectangle u0 = k/(N-1), u1 = u0 + 1/(N-1), v0 = row(d)/6, v1 = v0 + 1/6,
\* N the number of variants; for N = 3, k = 1 and Top, u0 = 1/2 and v0 = 4/6.
C14_AtlasRectangle ==
  fpc = "culled" =>
    \A j \in 1..NumQuads(fout) :
      \A pf \in UnitFacesOfQuad(fout, j) :
        Quad(fout, j) = UnitQuad[pf] =>
          SubSeq(fout.uvs, 4 * j - 3, 4 * j) =
            AtlasRectangle(Len(fin.all), raw(BlockAt(fin.chunk, pf[1])), pf[2])

\* The Top face of a voxel with raw() = 1 of a type of three variants has
\* the rectangle from (1/2, 4/6) to (2/2, 5/6); a voxel with raw() = 2 has
\* emitted a face as well.
C14_Witness ==
  /\ fpc = "culled"
  /\ Len(fin.all) = 3
  /\ \E j \in 1..NumQuads(fout) : \E pos \in Cells :
       /\ Quad(fout, j) = UnitQuad[<<pos, "Top">>]
       /\ raw(BlockAt(fin.chunk, pos)) = 1
       /\ SubSeq(fout.uvs, 4 * j - 3, 4 * j) =
            << << <<1, 2>>, <<5, 6>> >>, << <<1, 2>>, <<4, 6>> >>,
               << <<2, 2>>, <<4, 6>> >>, << <<2, 2>>, <<5, 6>> >> >>
  /\ \E j \in 1..NumQuads(fout) : \E pf \in Cells \X Face :
       /\ Quad(fout, j) = UnitQuad[pf]
       /\ raw(BlockAt(fin.chunk, pf[1])) = 2

\* C15: from_chunks returns one entry (ChunkPos, to_rle of the voxels) for
\* every chunk flagged dirty and none for any other chunk, clears the dirty
\* flag of the chunks it serialised and changes no other chunk.
C15_SaveSerialisesDirtyChunks ==
  [][ (fpc = "none" /\ fpc' = "saved") =>
        LET dirty == { e \in DOMAIN chunks : chunks[e].dirty }
        IN /\ Len(fout') = Cardinality(dirty)
           /\ { fout'[i] : i \in 1..Len(fout') } =
                { [pos |-> chunks[e].pos, rle |-> to_rle(chunks[e].voxels)] : e \in dirty }
           /\ \A i \in 1..Len(fout') : Expand(fout'[i].rle) \in
                { chunks[e].voxels : e \in { d \in dirty : chunks[d].pos = fout'[i].pos } }
           /\ DOMAIN chunks' = DOMAIN chunks
           /\ \A e \in dirty : chunks'[e] = [chunks[e] EXCEPT !.dirty = FALSE]
           /\ \A e \in DOMAIN chunks \ dirty : chunks'[e] = chunks[e]
    ]_vars

\* from_chunks has run on a world that held several dirty chunks and a chunk
\* that was not dirty.
C15_Witness ==
  /\ fpc = "saved"
  /\ Len(fout) >= 2
  /\ \E e \in DOMAIN fin : ~fin[e].dirty
  /\ \E e \in DOMAIN fin : fin[e].dirty /\ fin[e].voxels # DefaultChunk
  /\ \A e \in DOMAIN fin : e \in DOMAIN chunks /\ ~chunks[e].dirty

CallWy(i, cell) == fin[i][1][2] * CHUNK_WIDTH + cell[2]

CallHeight(i, cell) ==
  surface_heightmap(fin[i][1][1] * CHUNK_WIDTH + cell[1],
                    fin[i][1][3] * CHUNK_WIDTH + cell[3], fin[i][2])

CallDensity(i, cell) ==
  cave_depth_field(fin[i][1][1] * CHUNK_WIDTH + cell[1], CallWy(i, cell),
                   fin[i][1][3] * CHUNK_WIDTH + cell[3], fin[i][2])

\* C17: a voxel at or above the surface height is empty; one less than 16
\* below it is opaque; a deeper one is empty when the density is outside
\* [-0.3, 0.3], and is otherwise what lerp(empty, Stone, t) gives for
\* t = (density + 0.3) / 0.6, which lies in [0, 1]: empty below the
\* iso-level 0 and Stone from it on.
C17_GenerateClassifies ==
  fpc = "generated" =>
    \A i \in 1..Len(fin) : \A cell \in Cells :
      LET wy == CallWy(i, cell)
          h == CallHeight(i, cell)
          d == CallDensity(i, cell)
          block == BlockAt(fout[i], cell)
      IN /\ wy >= h => block = "Air"
         /\ (h - 16 <= wy /\ wy < h) => block \in {"Stone", "Dirt", "Grass"}
         /\ (wy < h - 16 /\ (d < -30 \/ d > 30)) => block = "Air"
         /\ (wy < h - 16 /\ -30 <= d /\ d <= 30) =>
              /\ d + 30 \in 0..60
              /\ block = (IF d + 30 < 30 THEN "Air" ELSE "Stone")
              /\ block = (IF d < 0 THEN "Air" ELSE "Stone")

\* The calls have produced a voxel above the surface, a soil voxel, deep
\* voxels on either side of the band, and deep voxels of the band below, at
\* and above the iso-level.
C17_Witness ==
  /\ fpc = "generated"
  /\ \E i \in 1..Len(fin) : \E c \in Cells : CallWy(i, c) >= CallHeight(i, c)
  /\ \E i \in 1..Len(fin) : \E c \in Cells :
       CallHeight(i, c) - 16 <= CallWy(i, c) /\ CallWy(i, c) < CallHeight(i, c)
  /\ \E i \in 1..Len(fin) : \E c \in Cells :
       CallWy(i, c) < CallHeight(i, c) - 16 /\ CallDensity(i, c) < -30
  /\ \E i \in 1..Len(fin) : \E c \in Cells :
       CallWy(i, c) < CallHeight(i, c) - 16 /\ CallDensity(i, c) > 30
  /\ \E i \in 1..Len(fin) : \E c \in Cells :
       /\ CallWy(i, c) < CallHeight(i, c) - 16
       /\ CallDensity(i, c) \in -30..-1
       /\ BlockAt(fout[i], c) = "Air"
  /\ \E i \in 1..Len(fin) : \E c \in Cells :
       /\ CallWy(i, c) < CallHeight(i, c) - 16
       /\ CallDensity(i, c) = 0
       /\ BlockAt(fout[i], c) = "Stone"
  /\ \E i \in 1..Len(fin) : \E c \in Cells :
       /\ CallWy(i, c) < CallHeight(i, c) - 16
       /\ CallDensity(i, c) \in 1..30
       /\ BlockAt(fout[i], c) = "Stone"

\* C18: to_index maps the cells of a chunk one to one onto 0..CHUNK_SIZE-1;
\* a value written through get_mut(p) is what get(p) returns and no get(q),
\* q # p, changes; generate puts the block of cell (x, y, z) where get reads
\* it; a default chunk holds the empty variant in every cell.
C18_IndexIsConsistent ==
  /\ { to_index(c[1], c[2], c[3]) : c \in Cells } = 0..(CHUNK_SIZE - 1)
  /\ Cardinality(Cells) = CHUNK_SIZE
  /\ fpc = "written" =>
       \A q \in Cells :
         get(fout, q[1], q[2], q[3]) =
           IF q = fin.pos THEN fin.v ELSE get(fin.chunk, q[1], q[2], q[3])
  /\ fpc = "filled" =>
       \A q \in Cells :
         get(fout, q[1], q[2], q[3]) = GenerateBlock(fin.pos, fin.seed, q[1], q[2], q[3])
  /\ fpc = "default" =>
       \A q \in Cells : get(fout, q[1], q[2], q[3]) = "Air"

\* A cell whose x and z differ was written with a block it did not hold.
C18_Witness ==
  /\ fpc = "written"
  /\ fin.pos[1] # fin.pos[3]
  /\ fin.v # get(fin.chunk, fin.pos[1], fin.pos[2], fin.pos[3])
  /\ get(fout, fin.pos[1], fin.pos[2], fin.pos[3]) = fin.v
  /\ fin.chunk \notin {DefaultChunk, SavedChunk}

\* C19: all() lists every variant of Block once, and the place of a variant
\* in all(), counted from 0, is its raw() and the atlas column of the mesher.
C19_AllMatchesRaw ==
  fpc = "column" =>
    /\ Cardinality(fout.places) = 1
    /\ \A i \in fout.places : i - 1 = fout.raw /\ i - 1 = fout.column
    /\ Len(ALL) = Cardinality(BlockVariants)

\* A variant that is neither the first nor the last of all().
C19_Witness ==
  /\ fpc = "column"
  /\ fout.raw = 1
  /\ fout.column = 1
  /\ fin = "Stone"

\* C20: lerp(a, b, t) is a for t < 0.5 and b for t >= 0.5, and nothing else.
C20_LerpSelects ==
  fpc = "lerped" =>
    /\ fin.t < 30 => fout = fin.a
    /\ fin.t >= 30 => fout = fin.b
    /\ fout \in {fin.a, fin.b}

\* lerp at t = 0.5 with two different blocks.
C20_Witness ==
  /\ fpc = "lerped"
  /\ fin.t = 30
  /\ fin.a # fin.b
  /\ fout = fin.b

\* Under SpecStill every tick boundary one frame after the last chunk was
\* loaded is the state InitSettled describes.
SettledIsReached ==
  (/\ TickBoundary
   /\ ExistingPositions = FirstDesired
   /\ load_queue = << >>
   /\ tickSpawned = {}
   /\ linkWorld # {}) => InitSettled

\* The desired set of the most recent event, every event sent having been
\* handled by update_chunk_manager.
LastDesired == DesiredChunks(playerPos, RENDER_DISTANCE)

\* The chunk entities a step despawns.
Despawned == DOMAIN chunks \ DOMAIN chunks'

\* C21: a chunk whose position lies in the desired set of the most recent
\* observer event is never despawned, whatever events and ticks came before.
C21_DesiredChunksSurvive ==
  [][ events = << >> => \A e \in Despawned : chunks[e].pos \notin LastDesired ]_vars

\* No event is pending and both queues are empty at a tick boundary: the
\* ticks that follow spawn and despawn nothing until another event is sent.
Quiescent ==
  /\ TickBoundary
  /\ events = << >>
  /\ load_queue = << >>
  /\ unload_queue = << >>

\* C22: for any finite sequence of observer events, the state with both
\* queues empty that the ticks lead to once the events have stopped has the
\* chunks of the desired set of the last event: every state the ticks leave
\* at rest is such a state.
C22_RoamingConverges == Quiescent => ExistingPositions = LastDesired

\* C23: no two chunks that exist at the same time have the same ChunkPos,
\* whatever events were sent, however many were read in one tick, and with a
\* budget smaller than the queue.
C23_PositionsUnique ==
  \A e1, e2 \in DOMAIN chunks : chunks[e1].pos = chunks[e2].pos => e1 = e2

\* A position whose chunk was despawned has been loaded a second time, by a
\* tick that left positions in the queue.
C23_Witness ==
  /\ \E e \in DOMAIN chunks : e.gen = 1
  /\ QLen(load_queue) > 0
  /\ evSent = 1 + MaxMoves

\* The desired sets of the events a tick reads.
EventDesired == { DesiredChunks(events[i], RENDER_DISTANCE) : i \in 1..Len(events) }

\* Queue q2 is queue q1 with entries pushed at its back.
Extends(q1, q2) ==
  /\ Len(q1) <= Len(q2)
  /\ SubSeq(q2, 1, Len(q1)) = q1

\* No member of a queue is in it twice.
NoRepeat(q) == QLen(q) = Cardinality(QSet(q))

C25_UnloadTouchesOneChunk ==
  [][ (phase = "load" /\ phase' # phase) =>
        LET before == QSet(unload_queue)
            popped == before \ QSet(unload_queue')
            gone == Despawned
            beside == UNION { OffsetSet(chunks'[n].pos) : n \in DOMAIN chunks' \ DOMAIN chunks }
        IN /\ QSet(unload_queue') \subseteq before
           /\ Cardinality(popped) = (IF unload_queue = << >> THEN 0 ELSE 1)
           /\ gone = popped \cap DOMAIN chunks
           /\ \A e \in DOMAIN chunks \ gone :
                /\ e \in DOMAIN chunks'
                /\ chunks'[e] = IF chunks[e].pos \in beside
                                THEN [chunks[e] EXCEPT !.nreq = TRUE, !.mreq = TRUE]
                                ELSE chunks[e]
    ]_vars

\* A chunk has been despawned in a tick that loaded chunks too: a chunk next
\* to it has no request pending and still holds its handle, and another chunk
\* has the requests of a load.
C25_Witness ==
  /\ phase = "neighbors"
  /\ tickSpawned # {}
  /\ \E e \in DOMAIN chunks : \E i \in 1..6 :
       /\ chunks[e].neighbors[i].kind = "chunk"
       /\ chunks[e].neighbors[i] \notin DOMAIN chunks
       /\ ~chunks[e].nreq /\ ~chunks[e].mreq
  /\ \E e \in DOMAIN chunks \ tickSpawned : chunks[e].nreq

\* The cells of the unit faces the j-th quad of a mesh covers.
QuadCells(mesh, j) == { pf[1] : pf \in UnitFacesOfQuad(mesh, j) }

\* C26: every quad greedy_quads emits covers cells that all hold one voxel
\* value and whose faces in the scanned direction are all exposed, and no
\* unit face is covered by two quads.
C26_GreedyQuadsAreUniform ==
  fpc = "greedy" =>
    LET exposed == Exposed(fin.chunk, fin.neighbors)
    IN /\ \A j \in 1..NumQuads(fout) :
            /\ UnitFacesOfQuad(fout, j) \subseteq exposed
            /\ \A p, q \in QuadCells(fout, j) :
                 BlockAt(fin.chunk, p) = BlockAt(fin.chunk, q)
       /\ \A j, k \in 1..NumQuads(fout) :
            j # k => UnitFacesOfQuad(fout, j) \cap UnitFacesOfQuad(fout, k) = {}

\* The positions of the entries of a save.
SavedPositions(save) == { save[i].pos : i \in 1..Len(save) }

\* C27: a chunk that was loaded from the save the world started from, and
\* was not edited since, has an entry in the save from_chunks returns.
C27_SaveKeepsLoadedChunks ==
  fpc = "saved" =>
    \A e \in DOMAIN fin :
      (fin[e].pos \in SavedPositions(world) /\ ~fin[e].dirty) =>
        fin[e].pos \in SavedPositions(fout)

\* Texture coordinates are fractions <<n, d>> with d > 0: n1/d1 <= n2/d2
\* and n1/d1 < n2/d2.
FracLe(a, b) == a[1] * b[2] <= b[1] * a[2]

FracLt(a, b) == a[1] * b[2] < b[1] * a[2]

\* The four texture coordinates of a quad are [u0, v1], [u0, v0], [u1, v0],
\* [u1, v1] (chunk.rs:292): its range <<u0, u1>> and its range <<v0, v1>>.
URange(uvs) == << uvs[2][1], uvs[3][1] >>

VRange(uvs) == << uvs[2][2], uvs[1][2] >>

\* A range <<lo, hi>> with 0 <= lo < hi <= 1.
InUnit(r) == FracLe(<<0, 1>>, r[1]) /\ FracLt(r[1], r[2]) /\ FracLe(r[2], <<1, 1>>)

\* Two ranges share no more than an end.
Apart(r, s) == FracLe(r[2], s[1]) \/ FracLe(s[2], r[1])

\* The texture coordinates add_face_if_visible pushes for a face of a voxel
\* that stands alone at pos.
EmittedUVs(all, voxel, pos, face) ==
  add_face_if_visible(LoneVoxel(pos, voxel), all, pos, face, voxel, NoNeighbors, EmptyMesh).uvs

\* C28: the texture rectangle the mesher pushes for a face of an opaque
\* variant lies in the unit square, 0 <= u0 < u1 <= 1 and 0 <= v0 < v1 <= 1,
\* and the u-ranges of two different opaque variants do not overlap.
C28_UVsInUnitSquare ==
  fpc = "faced" =>
    /\ InUnit(URange(fout.uvs))
    /\ InUnit(VRange(fout.uvs))
    /\ \A w \in OpaqueVariants(fin.all) \ {fin.voxel} :
         Apart(URange(fout.uvs), URange(EmittedUVs(fin.all, w, fin.pos, fin.face)))

\* Vectors of three whole numbers: difference, cross product, dot product.
Minus(a, b) == [i \in 1..3 |-> a[i] - b[i]]

Cross(a, b) ==
  << a[2] * b[3] - a[3] * b[2], a[3] * b[1] - a[1] * b[3], a[1] * b[2] - a[2] * b[1] >>

Dot(a, b) == a[1] * b[1] + a[2] * b[2] + a[3] * b[3]

\* The right-handed normal of the t-th triangle of an index buffer, not
\* normalised: (v1 - v0) x (v2 - v0) for its vertices v0, v1, v2.
TriangleNormal(ps, indices, t) ==
  LET v(k) == ps[indices[3 * (t - 1) + k] + 1]
  IN Cross(Minus(v(2), v(1)), Minus(v(3), v(1)))

\* c is a positive multiple of n.
SameDirection(c, n) == Cross(c, n) = <<0, 0, 0>> /\ Dot(c, n) > 0

\* A box with min < max on all axes.
ProperBox(min, max) == \A i \in 1..3 : min[i] < max[i]

\* The coordinate, on the axis of a face, of that face of the box.
PlaneOf(face, min, max) == IF Upwards(face) THEN max[Axis(face)] ELSE min[Axis(face)]

\* C29: for a box with min < max on all axes the four vertices of
\* Face::positions lie in the plane of that face of the box, and the two
\* triangles (v0, v1, v2) and (v0, v2, v3) of the index pattern have a
\* right-handed normal in the direction of Face::normal.
C29_WindingMatchesNormal ==
  (fpc = "quad" /\ ProperBox(fin.min, fin.max)) =>
    /\ \A k \in 1..4 :
         fout.positions[k][Axis(fin.face)] = PlaneOf(fin.face, fin.min, fin.max)
    /\ \A t \in 1..2 :
         SameDirection(TriangleNormal(fout.positions, fout.indices, t), fout.normal)

\* The front face of a box two wide and one high: both triangles have the
\* normal (0, 0, 2).
C29_Witness ==
  /\ fpc = "quad"
  /\ ProperBox(fin.min, fin.max)
  /\ fin.face = "Front"
  /\ fin.max[1] - fin.min[1] = 2
  /\ fin.max[2] - fin.min[2] = 1
  /\ \A t \in 1..2 : TriangleNormal(fout.positions, fout.indices, t) = <<0, 0, 2>>

====
